---- MODULE Spec2Model ----
(***************************************************************************)
(* Model of the browser signing session (src/browser_signing.py), of its   *)
(* caller in the GUI (src/gui.py, _sign_pdf_via_browser), of the           *)
(* signature verification (src/signature_utils.py, get_certificate_info    *)
(* and _load_cms), of the cryptcp wrapper (src/cryptopro_cli.py, the       *)
(* certificate selector and the command line of sign_file_detached and     *)
(* sign_file_attached) and of the CAdESCOM signer (src/signer_cadescom.py, *)
(* _select_certificate and sign_file).                                     *)
(*                                                                         *)
(* Python's None is the empty sequence <<>>, a present value x is <<x>>.   *)
(***************************************************************************)
EXTENDS Integers, Sequences, FiniteSets, TLC

VARIABLES
    flow,         \* who drives the session: "gui" (_sign_pdf_via_browser) or "api" (a direct caller of wait)
    pc,           \* position of the caller
    server,       \* session._server is not None
    thread,       \* session._thread is not None
    log_handler,  \* session._log_handler is not None (the relay is on the root logger)
    log_to_page,  \* session.log_to_page
    result,       \* session._result
    error,        \* session._error
    event,        \* session._event is set
    setCount,     \* number of calls of _event.set() so far (saturates at MaxSetCount)
    log_entries,  \* session._log_entries
    inSet,        \* handler threads inside set_error / set_result: slot written, signal not yet set
    last,         \* the request handled last and the response it is answered with
    elapsed,      \* time the caller has been blocked, in ticks
    outcome,      \* how the caller's flow ended
    delivered,    \* what the caller received: the signature returned or the message raised
    vr,           \* the run of a function taken by itself (get_certificate_info, _load_cms,
                  \* the signing functions): its inputs and its result
    client        \* the page polling the log endpoint: its cursor and what it has received

vars == <<flow, pc, server, thread, log_handler, log_to_page, result, error, event,
          setCount, log_entries, inSet, last, elapsed, outcome, delivered, vr, client>>

(***************************************************************************)
(* Bounds of the model.                                                    *)
(***************************************************************************)
\* capacity of the log buffer; stands for the 500 of _append_log
LogCapacity == 4
\* the timeout passed to wait(), in ticks; stands for the default of 180 s
WaitTimeout == 2
\* how far the clock runs past WaitTimeout
Overrun == 1
\* the counter of _event.set() calls saturates here
MaxSetCount == 2
\* number of request handler threads that may run at once
NumHandlers == 2
\* number of log entries appended while the page polls
MaxAppended == 9
\* number of certificates in the certificate stores
MaxCerts == 2

None == <<>>
Some(x) == <<x>>

\* the two setters of the session a handler thread may be inside
Setters == {"set_error", "set_result"}

\* the session nonce (secrets.token_urlsafe(24)) and what a request may carry instead
SessionNonce == "N"
NoNonce == "none"
NonceInputs == {SessionNonce, "X", NoNonce}

LoopbackAddrs == {"127.0.0.1", "::1"}
ClientAddrs == LoopbackAddrs \cup {"10.0.0.7"}

\* files below session.static_root
StaticRootFiles == {<<"index.html">>, <<"app.js">>}

\* request paths, as their segments: "/" is <<>>, "/./index.html" is <<".", "index.html">>
GetPaths == { <<>>, <<"index.html">>, <<"config">>, <<"logs">>, <<"app.js">>,
              <<"missing.txt">>, <<".", "index.html">>, <<"..", "secret.txt">>,
              <<"app.js", "..">> }
PostPaths == { <<"result">>, <<"config">> }

(***************************************************************************)
(* os.path.normpath on a relative path: "." segments are dropped, ".."     *)
(* removes the segment before it, or stays when there is none.             *)
(***************************************************************************)
RECURSIVE NormFrom(_, _)
NormFrom(segs, acc) ==
    IF segs = <<>> THEN acc
    ELSE LET s == Head(segs) IN
         IF s = "." THEN NormFrom(Tail(segs), acc)
         ELSE IF s = ".." /\ acc # <<>> /\ acc[Len(acc)] # ".."
              THEN NormFrom(Tail(segs), SubSeq(acc, 1, Len(acc) - 1))
              ELSE NormFrom(Tail(segs), Append(acc, s))

NormPath(segs) == NormFrom(segs, <<>>)

(***************************************************************************)
(* base64.b64decode(s) in its default, non-validating mode                 *)
(* (binascii.a2b_base64): characters outside the alphabet are skipped,     *)
(* decoding ends at the padding that completes a quad, and data left in    *)
(* an incomplete quad is an error.  "Q" is an alphabet character, "!" is   *)
(* not, "~" is a non-ASCII character (ValueError).  The decoded bytes are  *)
(* represented by the data characters that produced them.                  *)
(***************************************************************************)
RECURSIVE B64Scan(_, _, _, _)
B64Scan(s, quad, pads, data) ==
    IF s = <<>>
    THEN IF quad = 0 THEN [ok |-> TRUE, bytes |-> data] ELSE [ok |-> FALSE, bytes |-> <<>>]
    ELSE LET c == Head(s) IN
         IF c = "="
         THEN IF quad >= 2 /\ quad + pads + 1 >= 4
              THEN [ok |-> TRUE, bytes |-> data]
              ELSE B64Scan(Tail(s), quad, IF quad >= 2 THEN pads + 1 ELSE pads, data)
         ELSE IF c = "Q"
              THEN B64Scan(Tail(s), (quad + 1) % 4, 0, Append(data, c))
              ELSE B64Scan(Tail(s), quad, pads, data)

B64Decode(s) ==
    IF \E i \in 1..Len(s) : s[i] = "~"
    THEN [ok |-> FALSE, bytes |-> <<>>]
    ELSE B64Scan(s, 0, 0, <<>>)

(***************************************************************************)
(* Requests.  A GET carries its nonce and the cursor "after" in the query, *)
(* a POST carries a body: one whose Content-Length header is no number     *)
(* ("badlen"), one that is no JSON ("notjson"), a JSON value that is no    *)
(* object ("nonobject"), or a JSON object with the fields nonce, status,   *)
(* signature and error.                                                    *)
(***************************************************************************)
\* the "signature" field: absent, the empty string, a JSON value that is no string, or a string
SigMissing == [kind |-> "missing", chars |-> <<>>]
SigEmpty == [kind |-> "string", chars |-> <<>>]
SigNumber == [kind |-> "nonstring", chars |-> <<>>]
SigString(cs) == [kind |-> "string", chars |-> cs]

GoodSignature == SigString(<<"Q", "Q", "=", "=">>)
GarbageSignature == SigString(<<"!", "!", "!", "!">>)
SigInputs == { SigMissing, SigEmpty, SigNumber, GoodSignature,
               SigString(<<"Q", "Q", "Q", "Q">>), SigString(<<"Q", "Q", "Q">>),
               SigString(<<"Q", "=", "Q", "=">>), GarbageSignature, SigString(<<"~">>) }

\* the "error" field: absent, the empty string, or a message
ErrorInputs == {"none", "", "E1"}
\* the "after" parameter: the text of an integer, or text that int() rejects
AfterInt(n) == [isInt |-> TRUE, n |-> n]
AfterText == [isInt |-> FALSE, n |-> 0]
AfterInputs == { AfterInt(n) : n \in -1..LogCapacity } \cup {AfterText}

GetRequest(a, p, n, af) ==
    [addr |-> a, method |-> "GET", path |-> p, nonce |-> n, after |-> af,
     body |-> "-", status |-> "none", signature |-> SigMissing, error |-> "none"]

PostRequest(a, p, b, n, st, sg, er) ==
    [addr |-> a, method |-> "POST", path |-> p, nonce |-> n, after |-> AfterInt(0),
     body |-> b, status |-> st, signature |-> sg, error |-> er]

GetRequests ==
    { GetRequest(a, p, n, AfterInt(0)) : a \in ClientAddrs, p \in GetPaths \ {<<"logs">>}, n \in NonceInputs }
    \cup { GetRequest(a, <<"logs">>, n, af) : a \in ClientAddrs, n \in NonceInputs, af \in AfterInputs }

PostRequests ==
    { PostRequest(a, p, b, NoNonce, "none", SigMissing, "none") :
        a \in ClientAddrs, p \in PostPaths, b \in {"badlen", "notjson", "nonobject"} }
    \cup { PostRequest(a, p, "object", n, "ok", sg, "none") :
        a \in ClientAddrs, p \in PostPaths, n \in NonceInputs, sg \in SigInputs }
    \cup { PostRequest(a, p, "object", n, st, GoodSignature, er) :
        a \in ClientAddrs, p \in PostPaths, n \in NonceInputs,
        st \in {"error", "none"}, er \in ErrorInputs }

Requests == GetRequests \cup PostRequests

\* the requests that reach a running session while its caller waits
SessionRequests ==
    { PostRequest("127.0.0.1", <<"result">>, "object", SessionNonce, "ok", GoodSignature, "none"),
      PostRequest("127.0.0.1", <<"result">>, "object", SessionNonce, "ok", GarbageSignature, "none"),
      PostRequest("127.0.0.1", <<"result">>, "object", SessionNonce, "ok", SigMissing, "none"),
      PostRequest("::1", <<"result">>, "object", SessionNonce, "error", SigMissing, "E1"),
      \* a failure whose message is the text wait() raises on a timeout
      PostRequest("127.0.0.1", <<"result">>, "object", SessionNonce, "error", SigMissing,
                  "no answer from the browser in time") }

(***************************************************************************)
(* Responses: the status (0: the handler raised and the connection was     *)
(* closed without a response), the body's text, what the body holds of     *)
(* the session (its nonce, the document, log entries), and the levels of   *)
(* the records the handler logged for the request, in order.  An exchange  *)
(* also records whether handling the request wrote a slot of the session   *)
(* (and so entered a setter that sets the completion signal).              *)
(***************************************************************************)
Response(st, txt, lg) ==
    [status |-> st, body |-> txt, nonce |-> NoNonce, pdf |-> FALSE, items |-> <<>>,
     lastId |-> 0, logged |-> lg]

\* before the first request: no exchange yet
NoRequest ==
    [addr |-> "-", method |-> "-", path |-> <<>>, nonce |-> NoNonce, after |-> AfterInt(0),
     body |-> "-", status |-> "none", signature |-> SigMissing, error |-> "none"]
NoExchange == [req |-> NoRequest, resp |-> Response(0, "", <<>>), changed |-> FALSE]

(***************************************************************************)
(* _append_log: append, then keep the newest LogCapacity entries.          *)
(***************************************************************************)
\* a slip: a full buffer keeps its entries and drops the new one
AppendLog_DropsNewest(entries, message) ==
    IF Len(entries) >= LogCapacity THEN entries ELSE Append(entries, message)

AppendLog(entries, message) ==
    LET grown == Append(entries, message) IN
    IF Len(grown) > LogCapacity
    THEN SubSeq(grown, Len(grown) - LogCapacity + 1, Len(grown))
    ELSE grown

\* every record of the root logger reaches _SessionLogHandler.emit while the relay is attached
RECURSIVE Relay(_, _, _)
Relay(attached, entries, levels) ==
    IF ~attached \/ levels = <<>> THEN entries
    ELSE Relay(attached, AppendLog(entries, Head(levels)), Tail(levels))

(***************************************************************************)
(* get_logs_since(last_id): the entries from position max(0, last_id) on   *)
(* and the number of entries held.                                         *)
(***************************************************************************)
GetLogsSince(entries, last_id) ==
    LET next_id == IF last_id > 0 THEN last_id ELSE 0 IN
    [lastId |-> Len(entries),
     items |-> IF next_id >= Len(entries) THEN <<>>
               ELSE SubSeq(entries, next_id + 1, Len(entries))]

(***************************************************************************)
(* The request handler.  Each operator returns what the handler does with  *)
(* a request: the response, and for an accepted result the slot written    *)
(* (set, value), the records logged before the slot is written (pre) and   *)
(* those logged after the completion signal (post).  Levels of the log     *)
(* records: "D" debug, "I" info, "W" warning, "E" error.                   *)
(***************************************************************************)
Answer(resp) == [resp |-> resp, set |-> "none", value |-> <<>>, pre |-> resp.logged, post |-> <<>>]

\* _reject: a warning, then the response (send_response logs the request at debug level)
Reject(status, message, before) == Response(status, message, before \o <<"W", "D">>)

\* send_error(NOT_FOUND): log_error, then send_response
NotFound(before) == Response(404, "Not Found", before \o <<"D", "D">>)

\* an exception leaves the handler: socketserver closes the connection, nothing is sent
Crash(before) == Response(0, "", before)

\* a slip: the address is checked for POST only
CheckClient_PostOnly(req) == req.method = "POST" => req.addr \in LoopbackAddrs

CheckClient(req) == req.addr \in LoopbackAddrs

ValidateNonce(req) == req.nonce = SessionNonce

LogsNonceOk(req) == req.nonce = SessionNonce

\* a slip: a body without a nonce field passes
PostNonceOk_AbsentPasses(req) == req.nonce \in {SessionNonce, NoNonce}

PostNonceOk(req) == req.nonce = SessionNonce

ServeStaticFile(relative_path, before) ==
    LET clean_path == NormPath(relative_path) IN
    IF clean_path # <<>> /\ clean_path[1] = ".."
    THEN [handled |-> TRUE, resp |-> Reject(403, "Path is outside static root", before)]
    ELSE IF clean_path \notin StaticRootFiles
         THEN [handled |-> FALSE, resp |-> Crash(before)]
         ELSE [handled |-> TRUE,
               resp |-> Response(200, clean_path[Len(clean_path)], before \o <<"D">>)]

HandleLogs(req, entries, attached, toPage, before) ==
    IF ~LogsNonceOk(req)
    THEN Reject(403, "Invalid nonce", before \o <<"W">>)
    ELSE IF ~toPage
         THEN NotFound(before)
         ELSE LET seen == IF req.after.isInt THEN before ELSE before \o <<"D">>
                  after == IF req.after.isInt THEN req.after.n ELSE 0
                  snap == GetLogsSince(Relay(attached, entries, seen), after)
              IN [Response(200, "logs", seen \o <<"D">>)
                    EXCEPT !.items = snap.items, !.lastId = snap.lastId]

HandleConfig(req, entries, attached, before) ==
    IF ~ValidateNonce(req)
    THEN Reject(403, "Invalid nonce", before \o <<"W">>)
    ELSE LET snap == GetLogsSince(Relay(attached, entries, before), 0)
         IN [Response(200, "config", before \o <<"D">>)
               EXCEPT !.nonce = SessionNonce, !.pdf = TRUE,
                      !.items = snap.items, !.lastId = snap.lastId]

DoGet(req, entries, attached, toPage) ==
    IF ~CheckClient(req)
    THEN Answer(Reject(403, "Localhost only", <<>>))
    ELSE LET before == <<"D">> IN
         IF req.path = <<"logs">>
         THEN Answer(HandleLogs(req, entries, attached, toPage, before))
         ELSE IF req.path = <<"config">>
         THEN Answer(HandleConfig(req, entries, attached, before))
         ELSE IF req.path \in {<<>>, <<"index.html">>}
         THEN IF ~ValidateNonce(req)
              THEN Answer(Reject(403, "Invalid nonce", before \o <<"W">>))
              ELSE Answer(ServeStaticFile(<<"index.html">>, before).resp)
         ELSE LET served == ServeStaticFile(req.path, before) IN
              IF served.handled THEN Answer(served.resp) ELSE Answer(NotFound(before))

\* payload.get("error") or the default message
DefaultError == "unknown browser signing error"
ErrorMessage(req) == IF req.error \in {"none", ""} THEN DefaultError ELSE req.error

\* "not signature_b64": the field is absent or the empty string
SignatureAbsent(sig) == sig.kind = "missing" \/ (sig.kind = "string" /\ sig.chars = <<>>)

\* base64.b64decode(signature_b64): a value that is no string raises TypeError
DecodeSignature(sig) ==
    IF sig.kind # "string" THEN [ok |-> FALSE, bytes |-> <<>>] ELSE B64Decode(sig.chars)

DoPost(req) ==
    IF ~CheckClient(req)
    THEN Answer(Reject(403, "Localhost only", <<>>))
    ELSE LET before == <<"D">> IN
         IF req.path # <<"result">> THEN Answer(NotFound(before))
         ELSE IF req.body = "badlen" THEN Answer(Crash(before))
         ELSE IF req.body = "notjson" THEN Answer(Reject(400, "Invalid JSON", before \o <<"E">>))
         ELSE IF req.body = "nonobject" THEN Answer(Crash(before))
         ELSE IF ~PostNonceOk(req) THEN Answer(Reject(403, "Invalid nonce", before \o <<"W">>))
         ELSE IF req.status # "ok"
         THEN [resp |-> Response(200, "accepted", before \o <<"E", "E", "D">>),
               set |-> "set_error", value |-> ErrorMessage(req),
               pre |-> before \o <<"E", "E">>, post |-> <<"D">>]
         ELSE IF SignatureAbsent(req.signature)
         THEN Answer(Reject(400, "No signature", before \o <<"E">>))
         ELSE LET decoded == DecodeSignature(req.signature) IN
              IF ~decoded.ok
              THEN Answer(Reject(400, "Bad signature encoding", before \o <<"E">>))
              ELSE [resp |-> Response(200, "accepted", before \o <<"I", "D">>),
                    set |-> "set_result", value |-> decoded.bytes,
                    pre |-> before \o <<"I">>, post |-> <<"D">>]

Handle(req, entries, attached, toPage) ==
    IF req.method = "GET" THEN DoGet(req, entries, attached, toPage) ELSE DoPost(req)

(***************************************************************************)
(* The session: initial state after BrowserSigningSession.__init__.        *)
(***************************************************************************)
TimeoutMessage == "no answer from the browser in time"
EmptyMessage == "the browser's answer is empty"
CancelMessage == "browser signing cancelled by the user"

\* no verification is running
NoRun == [called |-> FALSE]

\* no page is polling
NoClient == [polling |-> FALSE]

SessionInit ==
    /\ flow \in {"gui", "api"}
    /\ pc = "created"
    /\ server = FALSE
    /\ thread = FALSE
    /\ log_handler = FALSE
    /\ log_to_page \in (IF flow = "gui" THEN {TRUE} ELSE BOOLEAN)
    /\ result = None
    /\ error = None
    /\ event = FALSE
    /\ setCount = 0
    /\ log_entries = <<>>
    /\ inSet = [k \in Setters |-> 0]
    /\ last = NoExchange
    /\ elapsed = 0
    /\ outcome = "none"
    /\ delivered = None
    /\ client = NoClient

Init ==
    /\ SessionInit
    /\ vr = NoRun

(***************************************************************************)
(* start(): nothing when the server exists; else the server is created,    *)
(* the relay is attached (with a first entry appended directly) when       *)
(* log_to_page, the worker thread is started and the start is logged.      *)
(***************************************************************************)
\* a slip: the test for a running server is missing
Start_Restarts ==
    LET attach == log_to_page /\ ~log_handler
        first == IF attach THEN AppendLog(log_entries, "S") ELSE log_entries
    IN /\ server' = TRUE
       /\ thread' = TRUE
       /\ log_handler' = (log_handler \/ attach)
       /\ log_entries' = Relay(log_handler \/ attach, first, <<"I">>)

Start ==
    IF server
    THEN UNCHANGED <<server, thread, log_handler, log_entries>>
    ELSE LET attach == log_to_page /\ ~log_handler
             first == IF attach THEN AppendLog(log_entries, "S") ELSE log_entries
         IN /\ server' = TRUE
            /\ thread' = TRUE
            /\ log_handler' = (log_handler \/ attach)
            /\ log_entries' = Relay(log_handler \/ attach, first, <<"I">>)

(***************************************************************************)
(* stop(): shut the server down, join the thread, detach the relay.        *)
(***************************************************************************)
\* a slip: the relay stays on the root logger
Stop_KeepsRelay ==
    /\ server' = FALSE
    /\ thread' = FALSE
    /\ log_handler' = log_handler
    /\ log_entries' = IF server THEN Relay(log_handler, log_entries, <<"I">>) ELSE log_entries

Stop ==
    /\ server' = FALSE
    /\ thread' = FALSE
    /\ log_handler' = FALSE
    /\ log_entries' = IF server THEN Relay(log_handler, log_entries, <<"I">>) ELSE log_entries

\* __enter__ of "with BrowserSigningSession(pdf_path) as browser_session"
Enter ==
    /\ pc = "created"
    /\ Start
    /\ pc' = "entered"
    /\ UNCHANGED <<flow, log_to_page, result, error, event, setCount, inSet, last,
                   elapsed, outcome, delivered, vr, client>>

\* _sign_pdf_via_browser: the explicit start(), url(), the page is opened, the dialog runs
OpenDialog ==
    /\ pc = "entered"
    /\ flow = "gui"
    /\ Start
    /\ pc' = "dialog"
    /\ UNCHANGED <<flow, log_to_page, result, error, event, setCount, inSet, last,
                   elapsed, outcome, delivered, vr, client>>

\* the dialog's timer sees is_finished() and accepts; the caller goes on to wait()
DialogAccept ==
    /\ pc = "dialog"
    /\ event
    /\ pc' = "waiting"
    /\ elapsed' = 0
    /\ UNCHANGED <<flow, server, thread, log_handler, log_to_page, result, error, event,
                   setCount, log_entries, inSet, last, outcome, delivered, vr, client>>

\* the user cancels or closes the dialog: exec() is not Accepted, the caller raises
DialogCancel ==
    /\ pc = "dialog"
    /\ pc' = "exiting"
    /\ outcome' = "cancelled"
    /\ delivered' = Some(CancelMessage)
    /\ UNCHANGED <<flow, server, thread, log_handler, log_to_page, result, error, event,
                   setCount, log_entries, inSet, last, elapsed, vr, client>>

\* a caller of the session's interface calls wait(timeout) right after start()
CallWait ==
    /\ pc = "entered"
    /\ flow = "api"
    /\ pc' = "waiting"
    /\ elapsed' = 0
    /\ UNCHANGED <<flow, server, thread, log_handler, log_to_page, result, error, event,
                   setCount, log_entries, inSet, last, outcome, delivered, vr, client>>

\* wait(): _event.wait(timeout) returns True
WaitFinished ==
    /\ pc = "waiting"
    /\ event
    /\ pc' = "check_error"
    /\ UNCHANGED <<flow, server, thread, log_handler, log_to_page, result, error, event,
                   setCount, log_entries, inSet, last, elapsed, outcome, delivered, vr, client>>

\* wait(): _event.wait(timeout) returns False once the timeout has passed
WaitTimedOut ==
    /\ pc = "waiting"
    /\ ~event
    /\ elapsed >= WaitTimeout
    /\ pc' = "exiting"
    /\ outcome' = "timeout"
    /\ delivered' = Some(TimeoutMessage)
    /\ log_entries' = Relay(log_handler, log_entries, <<"E">>)
    /\ UNCHANGED <<flow, server, thread, log_handler, log_to_page, result, error, event,
                   setCount, inSet, last, elapsed, vr, client>>

\* "if self._error": the slot holds a non-empty message
Truthy(slot) == slot # None /\ slot[1] # ""

\* wait(): if self._error: raise BrowserSigningError(self._error)
CheckError ==
    /\ pc = "check_error"
    /\ IF Truthy(error)
       THEN /\ pc' = "exiting"
            /\ outcome' = "error"
            /\ delivered' = error
       ELSE /\ pc' = "check_result"
            /\ UNCHANGED <<outcome, delivered>>
    /\ UNCHANGED <<flow, server, thread, log_handler, log_to_page, result, error, event,
                   setCount, log_entries, inSet, last, elapsed, vr, client>>

\* wait(): if not self._result: raise ...; return self._result
CheckResult ==
    /\ pc = "check_result"
    /\ pc' = "exiting"
    /\ IF result = None
       THEN /\ outcome' = "empty"
            /\ delivered' = Some(EmptyMessage)
       ELSE /\ outcome' = "returned"
            /\ delivered' = result
    /\ UNCHANGED <<flow, server, thread, log_handler, log_to_page, result, error, event,
                   setCount, log_entries, inSet, last, elapsed, vr, client>>

\* a slip: the with block is left without stop()
Exit_LeavesRunning ==
    /\ pc = "exiting"
    /\ pc' = "done"
    /\ UNCHANGED <<flow, server, thread, log_handler, log_to_page, result, error, event,
                   setCount, log_entries, inSet, last, elapsed, outcome, delivered, vr, client>>

\* __exit__: stop()
Exit ==
    /\ pc = "exiting"
    /\ Stop
    /\ pc' = "done"
    /\ UNCHANGED <<flow, log_to_page, result, error, event, setCount, inSet, last,
                   elapsed, outcome, delivered, vr, client>>

\* time passes while the caller is blocked; _event.wait does not outlast its timeout
Tick ==
    /\ pc \in {"waiting", "dialog"}
    /\ elapsed < WaitTimeout + Overrun
    /\ pc = "waiting" => elapsed < WaitTimeout
    /\ elapsed' = elapsed + 1
    /\ UNCHANGED <<flow, pc, server, thread, log_handler, log_to_page, result, error, event,
                   setCount, log_entries, inSet, last, outcome, delivered, vr, client>>

(***************************************************************************)
(* A handler thread takes a request and handles it up to its response or,  *)
(* for an accepted result, up to the write of the slot in set_error /      *)
(* set_result.                                                             *)
(***************************************************************************)
\* a slip: the setter sets the signal first and has not written its slot yet
HandleRequest_SignalFirst(req) ==
    /\ server
    /\ inSet["set_error"] + inSet["set_result"] < NumHandlers
    /\ LET out == Handle(req, log_entries, log_handler, log_to_page) IN
       /\ log_entries' = Relay(log_handler, log_entries, out.pre)
       /\ event' = (event \/ out.set # "none")
       /\ last' = [req |-> req, resp |-> out.resp, changed |-> event' # event]
    /\ UNCHANGED <<flow, pc, server, thread, log_handler, log_to_page, result, error, inSet,
                   setCount, elapsed, outcome, delivered, vr>>

HandleRequest(req) ==
    /\ server
    /\ inSet["set_error"] + inSet["set_result"] < NumHandlers
    /\ LET out == Handle(req, log_entries, log_handler, log_to_page) IN
       /\ log_entries' = Relay(log_handler, log_entries, out.pre)
       /\ error' = IF out.set = "set_error" THEN Some(out.value) ELSE error
       /\ result' = IF out.set = "set_result" THEN Some(out.value) ELSE result
       /\ inSet' = IF out.set = "none" THEN inSet ELSE [inSet EXCEPT ![out.set] = @ + 1]
       /\ last' = [req |-> req, resp |-> out.resp,
                   changed |-> (error' # error \/ result' # result \/ inSet' # inSet)]
    /\ UNCHANGED <<flow, pc, server, thread, log_handler, log_to_page, event, setCount,
                   elapsed, outcome, delivered, vr>>

\* set_error / set_result: self._event.set(); then _respond_ok
FinishSet(k) ==
    /\ inSet[k] > 0
    /\ event' = TRUE
    /\ setCount' = IF setCount < MaxSetCount THEN setCount + 1 ELSE setCount
    /\ log_entries' = Relay(log_handler, log_entries, <<"D">>)
    /\ inSet' = [inSet EXCEPT ![k] = @ - 1]
    /\ UNCHANGED <<flow, pc, server, thread, log_handler, log_to_page, result, error,
                   last, elapsed, outcome, delivered, vr, client>>

Next ==
    \/ Enter
    \/ OpenDialog
    \/ DialogAccept
    \/ DialogCancel
    \/ CallWait
    \/ WaitFinished
    \/ WaitTimedOut
    \/ CheckError
    \/ CheckResult
    \/ Exit
    \/ Tick
    \/ \E req \in SessionRequests : HandleRequest(req) /\ UNCHANGED client
    \/ \E k \in Setters : FinishSet(k)

Spec == Init /\ [][Next]_vars

(***************************************************************************)
(* The handler applied to every request.  The session is started and is    *)
(* in one of the states the requests of Spec lead to: nothing received, a  *)
(* signature delivered, a failure reported, or both; the request comes     *)
(* from Requests and one exchange is followed.                             *)
(***************************************************************************)
StartedLog(toPage) ==
    Relay(toPage, IF toPage THEN AppendLog(<<>>, "S") ELSE <<>>, <<"I">>)

\* the session's slots, signal and buffer after the accepted results named
GateSessions(toPage) ==
    LET fresh == StartedLog(toPage)
        okLog(l) == Relay(toPage, l, <<"D", "I", "D">>)
        errLog(l) == Relay(toPage, l, <<"D", "E", "E", "D">>)
    IN { [result |-> None, error |-> None, event |-> FALSE, setCount |-> 0, log |-> fresh],
         [result |-> Some(<<"Q", "Q">>), error |-> None, event |-> TRUE, setCount |-> 1,
          log |-> okLog(fresh)],
         [result |-> None, error |-> Some("E1"), event |-> TRUE, setCount |-> 1,
          log |-> errLog(fresh)],
         [result |-> Some(<<"Q", "Q">>), error |-> Some("E1"), event |-> TRUE, setCount |-> 2,
          log |-> errLog(okLog(fresh))] }

GateInit ==
    /\ flow = "api"
    /\ pc = "waiting"
    /\ server = TRUE
    /\ thread = TRUE
    /\ log_to_page \in BOOLEAN
    /\ log_handler = log_to_page
    /\ \E s \in GateSessions(log_to_page) :
         /\ result = s.result
         /\ error = s.error
         /\ event = s.event
         /\ setCount = s.setCount
         /\ log_entries = s.log
    /\ inSet = [k \in Setters |-> 0]
    /\ last = NoExchange
    /\ elapsed = 0
    /\ outcome = "none"
    /\ delivered = None
    /\ vr = NoRun
    /\ client = NoClient

GateNext ==
    \/ last = NoExchange /\ \E req \in Requests : HandleRequest(req) /\ UNCHANGED client
    \/ \E k \in Setters : FinishSet(k)

SpecGate == GateInit /\ [][GateNext]_vars

(***************************************************************************)
(* An owner that calls start() and stop() in any order and any number of   *)
(* times, while requests arrive at the started session.  pc names the      *)
(* call made last; successive calls of stop() alternate between "stop_a"   *)
(* and "stop_b".                                                           *)
(***************************************************************************)
CallStart ==
    /\ pc \in {"created", "started", "stop_a", "stop_b"}
    /\ Start
    /\ pc' = "started"
    /\ UNCHANGED <<flow, log_to_page, result, error, event, setCount, inSet, last,
                   elapsed, outcome, delivered, vr, client>>

CallStop ==
    /\ pc \in {"created", "started", "stop_a", "stop_b"}
    /\ Stop
    /\ pc' = IF pc = "stop_a" THEN "stop_b" ELSE "stop_a"
    /\ UNCHANGED <<flow, log_to_page, result, error, event, setCount, inSet, last,
                   elapsed, outcome, delivered, vr, client>>

OwnerInit ==
    /\ Init
    /\ flow = "api"

OwnerNext ==
    \/ CallStart
    \/ CallStop
    \/ \E req \in SessionRequests : HandleRequest(req) /\ UNCHANGED client
    \/ \E k \in Setters : FinishSet(k)

SpecOwner == OwnerInit /\ [][OwnerNext]_vars

(***************************************************************************)
(* The log endpoint polled by the page.  The session is started with its   *)
(* relay attached.  The client keeps a cursor and sends it as "after";     *)
(* after a response it takes the response's "last" as its cursor, or       *)
(* repeats the request with the cursor it has.  Other threads log records  *)
(* meanwhile.  Entries are numbered in the order they are appended: the    *)
(* buffer holds the newest Len(log_entries) of client.appended entries,    *)
(* and a response's items are the last entries of the buffer read.         *)
(***************************************************************************)
LogsRequest(after) == GetRequest("127.0.0.1", <<"logs">>, SessionNonce, AfterInt(after))

\* the numbers of the n newest entries when total entries have been appended
NewestIds(total, n) == [i \in 1..n |-> total - n + i]

\* the last two of the polls made
LastTwo(polls) == IF Len(polls) > 2 THEN SubSeq(polls, Len(polls) - 1, Len(polls)) ELSE polls

LogsInit ==
    /\ flow = "api"
    /\ pc = "waiting"
    /\ server = TRUE
    /\ thread = TRUE
    /\ log_to_page = TRUE
    /\ log_handler = TRUE
    /\ result = None
    /\ error = None
    /\ event = FALSE
    /\ setCount = 0
    /\ log_entries = StartedLog(TRUE)
    /\ inSet = [k \in Setters |-> 0]
    /\ last = NoExchange
    /\ elapsed = 0
    /\ outcome = "none"
    /\ delivered = None
    /\ vr = NoRun
    /\ client = [polling |-> TRUE, cursor |-> 0, ids |-> <<>>, top |-> -1, polls |-> <<>>,
                 appended |-> Len(StartedLog(TRUE)), snap |-> 0,
                 advancing |-> TRUE, noise |-> FALSE, quiet |-> TRUE]

\* one request to /logs with the client's cursor, and what the client does with the answer
Poll(advance) ==
    /\ client.appended + 2 <= MaxAppended
    /\ HandleRequest(LogsRequest(client.cursor))
    /\ LET resp == last'.resp
           \* records relayed before and after get_logs_since reads the buffer
           written == Len(resp.logged)
           snap == client.appended + written - 1
       IN client' = [client EXCEPT
                       !.cursor = IF advance THEN resp.lastId ELSE @,
                       !.ids = @ \o NewestIds(snap, Len(resp.items)),
                       !.top = IF resp.lastId > @ THEN resp.lastId ELSE @,
                       !.polls = LastTwo(Append(@, [after |-> client.cursor, top |-> client.top,
                                                    n |-> Len(resp.items),
                                                    last |-> resp.lastId])),
                       !.appended = @ + written,
                       !.snap = snap,
                       !.advancing = @ /\ advance,
                       !.noise = FALSE,
                       !.quiet = ~client.noise]

\* a record logged by another thread reaches the relay: _SessionLogHandler.emit
LogRecord(level) ==
    /\ client.appended < MaxAppended
    /\ log_handler
    /\ log_entries' = Relay(log_handler, log_entries, <<level>>)
    /\ client' = [client EXCEPT !.appended = @ + 1, !.noise = TRUE]
    /\ UNCHANGED <<flow, pc, server, thread, log_handler, log_to_page, result, error, event,
                   setCount, inSet, last, elapsed, outcome, delivered, vr>>

LogsNext ==
    \/ \E advance \in BOOLEAN : Poll(advance)
    \/ \E level \in {"I", "E"} : LogRecord(level)

SpecLogs == LogsInit /\ [][LogsNext]_vars

(***************************************************************************)
(* Signature verification: get_certificate_info(pdf_path, p7s_path,        *)
(* cer_path).  The inputs are what the files hold: the document, the       *)
(* signature container (how it parses, the signer's messageDigest          *)
(* attribute and digest algorithm, the first embedded certificate), the    *)
(* external certificate file, whether gostcrypto can be imported, and the  *)
(* current time.  A digest is the pair of the hash used and the document   *)
(* hashed; bytes are sequences, b"" is <<>>.                               *)
(***************************************************************************)
Unresolved == "unresolved"

Documents == {"doc1", "doc2"}
PdfInputs == Documents \cup {"unreadable"}

\* digest_algorithm.native: a name, or the dotted identifier when asn1crypto has no name
AlgInputs == {"sha256", "1.2.643.7.1.1.2.2", "1.2.643.7.1.1.2.9",
              "id-tc26-gost3411-12-512", "1.2.3.4"}

\* alg_map and gost_map of _compute_digest, and the prefix test of the GOST identifiers
AlgMap == [a \in {"sha256"} |-> a]
GostMap == [a \in {"1.2.643.7.1.1.2.2", "id-tc26-gost3411-12-512"} |->
              IF a = "1.2.643.7.1.1.2.2" THEN "streebog256" ELSE "streebog512"]
HasGostPrefix(alg) == alg \in {"1.2.643.7.1.1.2.2", "1.2.643.7.1.1.2.9"}
ContainsGost(alg) == alg \in {"id-tc26-gost3411-12-512"}

\* certificates: validity as times, and whether serial number and validity can be read
Certificate(sn, nb, na, serialOk, validityOk) ==
    [kind |-> "x509", serial |-> sn, notBefore |-> nb, notAfter |-> na,
     serialOk |-> serialOk, validityOk |-> validityOk]
\* an entry of the certificate set that is no x509 certificate
OtherEntry == [Certificate("", 0, 0, TRUE, TRUE) EXCEPT !.kind = "other"]
ExternalCert == Certificate("AA", 1, 1, TRUE, TRUE)
EmbeddedCerts == { Certificate("0B", 2, 2, TRUE, TRUE),
                   Certificate("0C", 2, 2, TRUE, FALSE),
                   Certificate("0D", 2, 2, FALSE, TRUE) }
\* signed_data["certificates"]: empty, a first entry that is no x509 certificate, or a certificate
EmbeddedInputs == {None, Some(OtherEntry)} \cup { Some(c) : c \in EmbeddedCerts }

\* the messageDigest attribute: absent, empty, or a digest
DigestInputs == { None, Some(<<>>), Some(<<"sha256", "doc1">>), Some(<<"sha256", "doc2">>),
                  Some(<<"streebog256", "doc1">>) }

\* the container: parsed, two kinds of bytes ContentInfo.load rejects, another content
\* type, no signer
ContainerInputs == {"signed_data", "not_asn1", "truncated", "not_signed_data", "no_signers"}

\* cer_path: not given, a path that does not exist, a certificate file, a file that is none
CerInputs == {"none", "missing", "good", "corrupt"}

TimeInputs == 1..3

VerifyInputs ==
    [pdf : PdfInputs, container : ContainerInputs, digest : DigestInputs, alg : AlgInputs,
     embedded : EmbeddedInputs, cer : CerInputs, gostcrypto : BOOLEAN, now : TimeInputs]

\* _compute_digest: the digest, None for an algorithm it cannot compute; reading the
\* document may raise
ComputeDigest(pdf, alg, gostcrypto) ==
    IF alg \in DOMAIN AlgMap
    THEN IF pdf = "unreadable" THEN [raised |-> TRUE, value |-> None]
         ELSE [raised |-> FALSE, value |-> Some(<<AlgMap[alg], pdf>>)]
    ELSE IF alg \in DOMAIN GostMap \/ HasGostPrefix(alg)
    THEN IF ~gostcrypto THEN [raised |-> FALSE, value |-> None]
         ELSE IF pdf = "unreadable" THEN [raised |-> TRUE, value |-> None]
         ELSE [raised |-> FALSE,
               value |-> Some(<<IF alg \in DOMAIN GostMap THEN GostMap[alg] ELSE "streebog256",
                                pdf>>)]
    ELSE [raised |-> FALSE, value |-> None]

\* _load_certificate_from_cer
LoadCertificateFromCer(cer) ==
    IF cer \in {"none", "missing"} THEN [raised |-> FALSE, value |-> None]
    ELSE IF cer = "corrupt" THEN [raised |-> TRUE, value |-> None]
    ELSE [raised |-> FALSE, value |-> Some(ExternalCert)]

\* _pick_cert_from_signed_data
PickCertFromSignedData(embedded) ==
    IF embedded # None /\ embedded[1].kind = "x509" THEN embedded ELSE None

\* "if msg_digest_attr": the attribute is present and not empty
DigestTruthy(digest) == digest # None /\ digest[1] # <<>>

InfoDefault ==
    [serial_number |-> Unresolved, subject |-> Unresolved, issuer |-> Unresolved,
     valid_from |-> Unresolved, valid_to |-> Unresolved, status |-> Unresolved]

\* a slip: the handler of the exception leaves the status as it was
Failed_StatusUnset(kind) == InfoDefault

\* "except Exception": the result so far with an error status; no certificate field has
\* been set when an exception can be raised
Failed(kind) == [InfoDefault EXCEPT !.status = kind]

\* the status of get_certificate_info once the certificate has been read
StatusOf(digest, alg, pdf_digest, matches_document, valid_from_dt, valid_to_dt, now) ==
    IF digest = None \/ alg = "" THEN "cannot_verify_no_digest"
    ELSE IF pdf_digest = None
    THEN IF ContainsGost(alg) \/ HasGostPrefix(alg)
         THEN "cannot_verify_gost" ELSE "cannot_verify_unknown_alg"
    ELSE IF ~matches_document THEN "mismatch"
    ELSE IF valid_from_dt # None /\ valid_to_dt # None
            /\ (now < valid_from_dt[1] \/ now > valid_to_dt[1])
         THEN "expired" ELSE "valid"

GetCertificateInfo(in) ==
    IF in.container = "not_asn1" THEN Failed("error_format")
    ELSE IF in.container \in {"truncated", "not_signed_data", "no_signers"} THEN Failed("error")
    ELSE
    LET computed == IF DigestTruthy(in.digest) /\ in.alg # ""
                    THEN ComputeDigest(in.pdf, in.alg, in.gostcrypto)
                    ELSE [raised |-> FALSE, value |-> None]
        pdf_digest == computed.value
        matches_document == pdf_digest # None /\ pdf_digest = in.digest
        loaded == IF in.cer # "none" THEN LoadCertificateFromCer(in.cer)
                  ELSE [raised |-> FALSE, value |-> None]
        cert == IF loaded.value # None THEN loaded.value
                ELSE PickCertFromSignedData(in.embedded)
    IN
    IF computed.raised \/ loaded.raised THEN Failed("error")
    ELSE IF cert # None /\ ~cert[1].serialOk THEN Failed("error")
    ELSE
    LET readable == cert # None /\ cert[1].validityOk
        valid_from_dt == IF readable THEN Some(cert[1].notBefore) ELSE None
        valid_to_dt == IF readable THEN Some(cert[1].notAfter) ELSE None
    IN [serial_number |-> IF cert # None THEN cert[1].serial ELSE Unresolved,
        subject |-> IF cert # None THEN "subject" ELSE Unresolved,
        issuer |-> IF cert # None THEN "issuer" ELSE Unresolved,
        valid_from |-> IF readable THEN "from" ELSE Unresolved,
        valid_to |-> IF readable THEN "to" ELSE Unresolved,
        status |-> StatusOf(in.digest, in.alg, pdf_digest, matches_document,
                            valid_from_dt, valid_to_dt, in.now)]

\* a session that is not used while a verification runs
IdleSession ==
    /\ SessionInit
    /\ flow = "api"
    /\ log_to_page = TRUE

\* _is_signature_pair_match: the status holds none of the words of a bad pair
IsSignaturePairMatch(info) == info.status \notin {"mismatch", "error", "error_format"}

VerifyInit ==
    /\ IdleSession
    /\ \E in \in VerifyInputs :
         vr = [called |-> FALSE, in |-> in, info |-> InfoDefault, pair |-> "untried"]

Verify ==
    /\ ~vr.called
    /\ vr' = [vr EXCEPT !.called = TRUE, !.info = GetCertificateInfo(vr.in)]
    /\ UNCHANGED <<flow, pc, server, thread, log_handler, log_to_page, result, error, event,
                   setCount, log_entries, inSet, last, elapsed, outcome, delivered, client>>

\* auto_match_signatures, one pair of the loop: the signature is attached to the document
\* or the loop goes on to the next pair
MatchPair ==
    /\ vr.called
    /\ vr.pair = "untried"
    /\ vr' = [vr EXCEPT !.pair = IF IsSignaturePairMatch(vr.info) THEN "matched" ELSE "next"]
    /\ UNCHANGED <<flow, pc, server, thread, log_handler, log_to_page, result, error, event,
                   setCount, log_entries, inSet, last, elapsed, outcome, delivered, client>>

VerifyNext ==
    \/ Verify
    \/ MatchPair

SpecVerify == VerifyInit /\ [][VerifyNext]_vars

(***************************************************************************)
(* _load_cms: the bytes of a signature file are turned into the bytes      *)
(* given to ContentInfo.load.  A file is described by what it holds:       *)
(*   lead      it begins with whitespace (a blank or an empty line)        *)
(*   form      "der": the container in binary, first byte 0x30             *)
(*             "pem": base64 text between -----BEGIN and -----END lines    *)
(*             "base64": base64 text without markers                       *)
(*             "junk": other bytes                                         *)
(*   body      what the binary or the base64 text encodes: "cms", a        *)
(*             signed-data container; "other", bytes ContentInfo.load      *)
(*             rejects; "undecodable", text on which b64decode raises      *)
(*   comment   bare base64 text with a line that begins with "#"           *)
(*   lenient   b64decode, which drops the characters outside its           *)
(*             alphabet, gets through bytes that are no base64 text        *)
(*             without raising (it depends on how many characters remain)  *)
(* The result says which bytes were parsed and whether parsing succeeded.  *)
(***************************************************************************)
P7sFiles ==
    [lead : BOOLEAN, form : {"der", "pem", "base64", "junk"},
     body : {"cms", "other", "undecodable"}, comment : BOOLEAN, lenient : BOOLEAN]

\* cms.ContentInfo.load on the bytes chosen
Parse(bytes, ok) == [parsed |-> bytes, ok |-> ok]

LoadCms(file) ==
    IF ~file.lead /\ file.form = "der"
    THEN \* raw[0] == 0x30
         Parse("raw", file.body = "cms")
    ELSE IF ~file.lead /\ file.form = "pem"
    THEN \* raw.startswith(b"-----BEGIN"): the lines of the block, b64decode outside any try
         IF file.body = "undecodable" THEN Parse("nothing", FALSE)
         ELSE Parse("pem_body", file.body = "cms")
    ELSE \* the stripped lines that are not comments, b64decode, on an exception the raw bytes
         IF file.form = "base64"
         THEN IF file.body = "undecodable" THEN Parse("raw", FALSE)
              ELSE Parse("base64", file.body = "cms")
         ELSE IF file.lenient THEN Parse("base64", FALSE)
              ELSE Parse("raw", FALSE)

LoadInit ==
    /\ IdleSession
    /\ \E file \in P7sFiles : vr = [called |-> FALSE, file |-> file, loaded |-> Parse("nothing", FALSE)]

Load ==
    /\ ~vr.called
    /\ vr' = [vr EXCEPT !.called = TRUE, !.loaded = LoadCms(vr.file)]
    /\ UNCHANGED <<flow, pc, server, thread, log_handler, log_to_page, result, error, event,
                   setCount, log_entries, inSet, last, elapsed, outcome, delivered, client>>

SpecLoad == LoadInit /\ [][Load]_vars

(***************************************************************************)
(* _build_selector_args(thumbprint, subject, container, choose_certificate)*)
(* of the cryptcp wrapper: the arguments that select the certificate, or   *)
(* CertificateSelectorError.  A selector is None, an empty string or a     *)
(* value.                                                                  *)
(***************************************************************************)
SelectorInputs == {None, Some(""), Some("value")}

SelectorCalls ==
    [thumbprint : SelectorInputs, subject : SelectorInputs, container : SelectorInputs,
     choose_certificate : BOOLEAN]

\* "if thumbprint": the selector is given and not empty
Given(selector) == selector # None /\ selector[1] # ""

SelectorError == [raised |-> TRUE, args |-> <<>>]
SelectorArgs(args) == [raised |-> FALSE, args |-> args]

\* a slip: every selector that is given is put on the command line
BuildSelectorArgs_AllGiven(call) ==
    IF call.choose_certificate
    THEN IF Given(call.thumbprint) \/ Given(call.subject) \/ Given(call.container)
         THEN SelectorError
         ELSE SelectorArgs(<<"-choose">>)
    ELSE LET t == IF Given(call.thumbprint) THEN <<"-thumbprint", call.thumbprint[1]>> ELSE <<>>
             s == IF Given(call.subject) THEN <<"-subject", call.subject[1]>> ELSE <<>>
             c == IF Given(call.container) THEN <<"-cont", call.container[1]>> ELSE <<>>
         IN IF t \o s \o c = <<>> THEN SelectorError ELSE SelectorArgs(t \o s \o c)

BuildSelectorArgs(call) ==
    IF call.choose_certificate
    THEN IF Given(call.thumbprint) \/ Given(call.subject) \/ Given(call.container)
         THEN SelectorError
         ELSE SelectorArgs(<<"-choose">>)
    ELSE IF Given(call.thumbprint) THEN SelectorArgs(<<"-thumbprint", call.thumbprint[1]>>)
    ELSE IF Given(call.subject) THEN SelectorArgs(<<"-subject", call.subject[1]>>)
    ELSE IF Given(call.container) THEN SelectorArgs(<<"-cont", call.container[1]>>)
    ELSE SelectorError

SelectorInit ==
    /\ IdleSession
    /\ \E call \in SelectorCalls : vr = [called |-> FALSE, call |-> call, out |-> SelectorError]

BuildSelector ==
    /\ ~vr.called
    /\ vr' = [vr EXCEPT !.called = TRUE, !.out = BuildSelectorArgs(vr.call)]
    /\ UNCHANGED <<flow, pc, server, thread, log_handler, log_to_page, result, error, event,
                   setCount, log_entries, inSet, last, elapsed, outcome, delivered, client>>

SpecSelector == SelectorInit /\ [][BuildSelector]_vars

(***************************************************************************)
(* sign_file_detached / sign_file_attached of the cryptcp wrapper: the     *)
(* input file is checked, the output path resolved, the selector built,    *)
(* the command line prepared, logged and run.  A text (a log line, the     *)
(* message of an exception) is the sequence of its words; an argument of   *)
(* the command line is one word.                                           *)
(***************************************************************************)
\* CRYPTCP_FLAGS["sign_detached"] and CRYPTCP_FLAGS["sign_attached"]
CryptcpFlags(mode) == IF mode = "detached" THEN <<"-sign", "-detached">> ELSE <<"-sign">>

\* the selectors a caller passes: each of the three has a value of its own
SignSelectors ==
    [thumbprint : {None, Some(""), Some("AB12")}, subject : {None, Some(""), Some("Ivanov")},
     container : {None, Some(""), Some("key-1")}, choose_certificate : BOOLEAN]

\* what the tool does when it is run: it exits with 0, it is not there, or it exits
\* with a non-zero status and with a diagnostic text on stderr that is empty, that
\* names no argument, or that repeats the arguments it was started with
ToolOutcomes == {"ok", "missing", "failed_silent", "failed_diag", "failed_echo"}

SignCalls ==
    [mode : {"detached", "attached"}, selectors : SignSelectors,
     input_is_file : BOOLEAN, output : {None, Some("out.sig")},
     dry_run : BOOLEAN, tool_path : {None, Some("tool")}, in_path : BOOLEAN,
     tool : ToolOutcomes]

\* _resolve_output_path: the explicit output, else the input with the suffix added
ResolveOutputPath(mode, explicit_output) ==
    IF explicit_output # None /\ explicit_output[1] # "" THEN explicit_output[1]
    ELSE IF mode = "detached" THEN "in.pdf.sig" ELSE "in.pdf.p7m"

\* _prepare_command, with find_cryptopro_tools already answered by tool
PrepareCommand(base_flags, input_path, output_path, selector_args, tool) ==
    <<tool>> \o base_flags \o selector_args \o <<"-in", input_path>> \o <<"-out", output_path>>

\* part.lower() on the words that occur on a command line
Lower(part) == IF part = "-THUMBPRINT" THEN "-thumbprint" ELSE part

RECURSIVE SafeCmd(_, _)
\* _log_command: the argument after -thumbprint is replaced by a placeholder
SafeCmd(cmd, redact_next) ==
    IF cmd = <<>> THEN <<>>
    ELSE IF redact_next THEN <<"<thumbprint>">> \o SafeCmd(Tail(cmd), FALSE)
    ELSE IF Lower(Head(cmd)) = "-thumbprint" THEN <<Head(cmd)>> \o SafeCmd(Tail(cmd), TRUE)
    ELSE <<Head(cmd)>> \o SafeCmd(Tail(cmd), FALSE)

LogCommand(cmd) == <<"cryptcp command:">> \o SafeCmd(cmd, FALSE)

\* exc.stderr of the CalledProcessError
Stderr(tool, cmd) ==
    IF tool = "failed_silent" THEN <<>>
    ELSE IF tool = "failed_diag" THEN <<"access denied">>
    ELSE <<"cannot run with">> \o Tail(cmd)

\* an exception: its class, its message and the message of the exception it was raised from
Raise(class, message, cause) == Some([class |-> class, message |-> message, cause |-> cause])

\* the outcome of a call: the command built, the lines logged, what is raised or returned
CliOutcome(cmd, logged, raised, returned) ==
    [cmd |-> cmd, logged |-> logged, raised |-> raised, returned |-> returned]

\* _run: the command is logged; nothing is run in dry-run mode; a missing tool and a
\* non-zero exit status are raised as errors of the wrapper, "from" the original one
Run(cmd, dry_run, tool, dst) ==
    IF dry_run \/ tool = "ok" THEN CliOutcome(cmd, <<LogCommand(cmd)>>, None, Some(dst))
    ELSE IF tool = "missing"
    THEN CliOutcome(cmd, <<LogCommand(cmd)>>,
                    Raise("CryptoProNotFoundError", <<"cryptcp not found">>, <<"No such file:", Head(cmd)>>),
                    None)
    ELSE LET stderr == IF Stderr(tool, cmd) # <<>> THEN Stderr(tool, cmd) ELSE <<"unknown error">>
         IN CliOutcome(cmd, <<LogCommand(cmd)>>,
                       Raise("RuntimeError", <<"cryptcp failed:">> \o stderr,
                             <<"Command">> \o cmd \o <<"returned non-zero exit status">>),
                       None)

CryptcpSignFile(call) ==
    IF ~call.input_is_file
    THEN CliOutcome(<<>>, <<>>, Raise("FileNotFoundError", <<"no file to sign:", "in.pdf">>, <<>>), None)
    ELSE LET dst == ResolveOutputPath(call.mode, call.output)
             selector == BuildSelectorArgs(call.selectors)
         IN IF selector.raised
            THEN CliOutcome(<<>>, <<>>,
                            Raise("CertificateSelectorError", <<"no certificate selected">>, <<>>), None)
            ELSE IF call.tool_path = None /\ ~call.in_path
            THEN CliOutcome(<<>>, <<>>,
                            Raise("CryptoProNotFoundError", <<"cryptcp not installed">>, <<>>), None)
            ELSE Run(PrepareCommand(CryptcpFlags(call.mode), "in.pdf", dst, selector.args,
                                    IF call.tool_path # None THEN call.tool_path[1] ELSE "cryptcp"),
                     call.dry_run, call.tool, dst)

CliInit ==
    /\ IdleSession
    /\ \E call \in SignCalls :
         vr = [called |-> FALSE, call |-> call, out |-> CliOutcome(<<>>, <<>>, None, None)]

CallCryptcpSignFile ==
    /\ ~vr.called
    /\ vr' = [vr EXCEPT !.called = TRUE, !.out = CryptcpSignFile(vr.call)]
    /\ UNCHANGED <<flow, pc, server, thread, log_handler, log_to_page, result, error, event,
                   setCount, log_entries, inSet, last, elapsed, outcome, delivered, client>>

SpecCli == CliInit /\ [][CallCryptcpSignFile]_vars

(***************************************************************************)
(* Certificate selection of the CAdESCOM signer (src/signer_cadescom.py).  *)
(* The certificates of the two stores list_certificates reads are a        *)
(* sequence of records; the thumbprint of a certificate is its place in    *)
(* that sequence.  in_user says that the certificate is in CurrentUser\My, *)
(* the store sign_file opens; the others are in LocalMachine\My only.      *)
(***************************************************************************)
StoreCertificates ==
    [has_private_key : BOOLEAN, is_valid : BOOLEAN, not_after : 1..2, in_user : BOOLEAN]

RECURSIVE SeqsUpTo(_, _)
\* the sequences over S of length at most n
SeqsUpTo(S, n) ==
    IF n = 0 THEN {<<>>}
    ELSE LET shorter == SeqsUpTo(S, n - 1)
         IN shorter \cup {Append(q, x) : q \in {r \in shorter : Len(r) = n - 1}, x \in S}

Stores == SeqsUpTo(StoreCertificates, MaxCerts)

\* the thumbprint a caller passes: None, or a text that is empty, a hash as the store
\* writes it, or a hash typed with blanks or in lower case; hash 0 is in no store
ThumbprintInputs ==
    {None, Some([hash |-> 0, typed |-> "empty"])}
    \cup {Some([hash |-> h, typed |-> t]) : h \in 0..MaxCerts, t \in {"plain", "spaced"}}

\* "if thumbprint"
ThumbprintGiven(thumbprint) == thumbprint # None /\ thumbprint[1].typed # "empty"

\* thumbprint.replace(" ", "").upper()
Normalized(thumbprint) == thumbprint[1].hash

\* the sort key of list_certificates: (not has_private_key, not is_valid, not_after)
SortKey(c) ==
    (IF c.has_private_key THEN 0 ELSE 100) + (IF c.is_valid THEN 0 ELSE 10) + c.not_after

RECURSIVE Insert(_, _, _)
\* x is put behind the entries whose key is not greater than its own
Insert(sorted, x, certs) ==
    IF sorted = <<>> THEN <<x>>
    ELSE IF SortKey(certs[Head(sorted)]) <= SortKey(certs[x])
         THEN <<Head(sorted)>> \o Insert(Tail(sorted), x, certs)
         ELSE <<x>> \o sorted

RECURSIVE Sorted(_, _)
\* list.sort with that key: stable
Sorted(seq, certs) ==
    IF seq = <<>> THEN <<>>
    ELSE Insert(Sorted(SubSeq(seq, 1, Len(seq) - 1), certs), seq[Len(seq)], certs)

RECURSIVE Indexes(_, _, _)
\* the places from i on of the certificates that are, or are not, in the user store
Indexes(certs, i, user) ==
    IF i > Len(certs) THEN <<>>
    ELSE (IF certs[i].in_user = user THEN <<i>> ELSE <<>>) \o Indexes(certs, i + 1, user)

\* list_certificates: CurrentUser first, then LocalMachine, then sorted
ListCertificates(certs) == Sorted(Indexes(certs, 1, TRUE) \o Indexes(certs, 1, FALSE), certs)

\* _find_certificate in the store sign_file has opened: the place of the certificate, 0 for None
FindCertificate(certs, hash) ==
    IF hash \in 1..Len(certs) /\ certs[hash].in_user THEN hash ELSE 0

SelectionError(message) == [raised |-> TRUE, cert |-> 0, message |-> message]
Selected(cert) == [raised |-> FALSE, cert |-> cert, message |-> ""]

RECURSIVE FirstUsable(_, _)
\* the loop over the listing: the first entry with a key and valid that is found in the store
FirstUsable(listing, certs) ==
    IF listing = <<>> THEN 0
    ELSE IF /\ certs[Head(listing)].has_private_key
            /\ certs[Head(listing)].is_valid
            /\ FindCertificate(certs, Head(listing)) # 0
         THEN Head(listing)
         ELSE FirstUsable(Tail(listing), certs)

\* _select_certificate; listing_ok: list_certificates does not raise
SelectCertificate(certs, thumbprint, listing_ok) ==
    IF ThumbprintGiven(thumbprint)
    THEN LET cert == FindCertificate(certs, Normalized(thumbprint)) IN
         IF cert = 0 THEN SelectionError("certificate not found")
         ELSE IF ~certs[cert].has_private_key THEN SelectionError("no private-key access")
         ELSE Selected(cert)
    ELSE IF ~listing_ok THEN SelectionError("store not available")
    ELSE LET certificates == ListCertificates(certs) IN
         IF FirstUsable(certificates, certs) # 0 THEN Selected(FirstUsable(certificates, certs))
         ELSE IF certificates # <<>> /\ FindCertificate(certs, certificates[1]) # 0
         THEN Selected(certificates[1])
         ELSE SelectionError("no suitable certificate")

SelectInit ==
    /\ IdleSession
    /\ \E certs \in Stores, thumbprint \in ThumbprintInputs, listing_ok \in BOOLEAN :
         vr = [called |-> FALSE, certs |-> certs, thumbprint |-> thumbprint,
               listing_ok |-> listing_ok, out |-> SelectionError("")]

Select ==
    /\ ~vr.called
    /\ vr' = [vr EXCEPT !.called = TRUE,
                        !.out = SelectCertificate(vr.certs, vr.thumbprint, vr.listing_ok)]
    /\ UNCHANGED <<flow, pc, server, thread, log_handler, log_to_page, result, error, event,
                   setCount, log_entries, inSet, last, elapsed, outcome, delivered, client>>

SpecSelect == SelectInit /\ [][Select]_vars

(***************************************************************************)
(* sign_file of the CAdESCOM signer.  The surroundings of a call are the   *)
(* certificates of the stores, the thumbprint passed and the one place     *)
(* where the provider or the file system fails, if any: a call ends at     *)
(* its first fault.  The message of a provider fault is described by the   *)
(* markers it contains.                                                    *)
(***************************************************************************)
Markers == {"0x80090016", "NTE_BAD_KEYSET", "0x8009000D", "Class not registered"}

DispatchPoints == {"store_dispatch", "signer_dispatch", "data_dispatch"}

\* com: the fault is a pywintypes.com_error
Faults ==
    {[at |-> at, markers |-> {}, com |-> FALSE] :
        at \in {"none", "com_unavailable", "input_missing", "bad_encoding", "store_event_source",
                "store_open", "listing", "signer_assign", "read_input", "write_output"}}
    \cup {[at |-> at, markers |-> m, com |-> TRUE] :
            at \in DispatchPoints, m \in {{}, {"Class not registered"}}}
    \cup {[at |-> "sign", markers |-> m, com |-> com] : m \in SUBSET Markers, com \in BOOLEAN}

SignEnvs ==
    [certs : SeqsUpTo(StoreCertificates, 1), thumbprint : ThumbprintInputs, fault : Faults,
     output_path : {None, Some("out.p7s")}]

\* the messages of SignerCadescomError that name what went wrong
Hint ==
    [key_carrier |-> "key carrier must be connected", no_key |-> "no private-key access",
     not_registered |-> "component not registered", sign_failed |-> "signing failed"]

\* the outcome of sign_file: whether the store was opened, the calls made to the
\* provider, the records logged, what is raised or returned, and the fault met
NativeOutcome(opened, calls, logged, raised, returned, hit) ==
    [opened |-> opened, calls |-> calls, logged |-> logged, raised |-> raised,
     returned |-> returned, hit |-> hit]

\* a slip: the registration failure is looked for first
DecodeFault_RegistrationFirst(message) ==
    IF "Class not registered" \in message THEN Hint.not_registered
    ELSE IF "0x80090016" \in message \/ "NTE_BAD_KEYSET" \in message THEN Hint.key_carrier
    ELSE IF "0x8009000D" \in message THEN Hint.no_key
    ELSE Hint.sign_failed

\* the handlers of the SignCades call: the hint for the message of the fault
DecodeFault(message) ==
    IF "0x80090016" \in message \/ "NTE_BAD_KEYSET" \in message THEN Hint.key_carrier
    ELSE IF "0x8009000D" \in message THEN Hint.no_key
    ELSE IF "Class not registered" \in message THEN Hint.not_registered
    ELSE Hint.sign_failed

\* _dispatch raises SignerCadescomError for an unregistered class and lets every other
\* fault through; the caller logs and wraps the other faults
DispatchFailed(fault, calls, logged, wrapped) ==
    IF "Class not registered" \in fault.markers
    THEN NativeOutcome(TRUE, calls, logged,
                       Raise("SignerCadescomError", <<Hint.not_registered>>, fault.markers),
                       None, fault.at)
    ELSE NativeOutcome(TRUE, calls, logged \o <<"exception">>,
                       Raise("SignerCadescomError", <<wrapped>>, fault.markers),
                       None, fault.at)

\* the body of the try block that follows the opening of the store
SignBody(env, logged) ==
    LET fault == env.fault
        selection == SelectCertificate(env.certs, env.thumbprint, fault.at # "listing")
        c0 == <<"Store.Open">>
        c1 == c0 \o <<"CPSigner">>
        c2 == c1 \o <<"CadesSignedData">>
        c3 == c2 \o <<"SignCades">>
        out == IF env.output_path # None THEN env.output_path[1] ELSE "in.pdf.p7s"
    IN IF selection.raised
       THEN NativeOutcome(TRUE, c0, logged,
                          Raise("SignerCadescomError", <<selection.message>>, fault.markers), None,
                          IF ~ThumbprintGiven(env.thumbprint) /\ fault.at = "listing"
                          THEN "listing" ELSE "none")
       ELSE IF ~env.certs[selection.cert].has_private_key
       THEN NativeOutcome(TRUE, c0, logged,
                          Raise("SignerCadescomError", <<Hint.no_key>>, fault.markers), None, "none")
       ELSE IF fault.at = "signer_dispatch"
       THEN DispatchFailed(fault, c1, logged, "signer not prepared")
       ELSE IF fault.at = "signer_assign"
       THEN NativeOutcome(TRUE, c1, logged \o <<"exception">>,
                          Raise("SignerCadescomError", <<"signer not prepared">>, fault.markers), None, fault.at)
       ELSE IF fault.at = "data_dispatch"
       THEN DispatchFailed(fault, c2, logged, "signed data not created")
       ELSE IF fault.at = "read_input"
       THEN NativeOutcome(TRUE, c2, logged, Raise("OSError", <<"cannot read">>, {}), None, fault.at)
       ELSE IF fault.at = "sign"
       THEN NativeOutcome(TRUE, c3, logged \o <<IF fault.com THEN "com_error" ELSE "exception">>,
                          Raise("SignerCadescomError", <<DecodeFault(fault.markers)>>, fault.markers), None, fault.at)
       ELSE IF fault.at = "write_output"
       THEN NativeOutcome(TRUE, c3, logged, Raise("OSError", <<"cannot write">>, {}), None, fault.at)
       ELSE NativeOutcome(TRUE, c3, logged \o <<"info">>, None, Some(out), "none")

\* a slip: the store is closed after a successful signing only
Finally_OnSuccessOnly(out) ==
    IF out.raised = None THEN [out EXCEPT !.calls = @ \o <<"Store.Close">>] ELSE out

\* the finally block: store.Close(), whatever it raises is dropped
Finally(out) == [out EXCEPT !.calls = @ \o <<"Store.Close">>]

SignFile(env) ==
    LET fault == env.fault IN
    IF fault.at = "com_unavailable"
    THEN NativeOutcome(FALSE, <<>>, <<>>,
                       Raise("SignerCadescomError", <<"CAdESCOM not available">>, fault.markers),
                       None, fault.at)
    ELSE IF fault.at = "input_missing"
    THEN NativeOutcome(FALSE, <<>>, <<>>, Raise("FileNotFoundError", <<"no file to sign">>, {}),
                       None, fault.at)
    ELSE IF fault.at = "bad_encoding"
    THEN NativeOutcome(FALSE, <<>>, <<>>, Raise("ValueError", <<"encoding">>, {}), None, fault.at)
    ELSE IF fault.at = "store_dispatch"
    THEN [DispatchFailed(fault, <<>>, <<>>, "store not opened") EXCEPT !.opened = FALSE]
    ELSE IF fault.at = "store_open"
    THEN NativeOutcome(FALSE, <<"Store.Open">>, <<"exception">>,
                       Raise("SignerCadescomError", <<"store not opened">>, fault.markers), None, fault.at)
    ELSE Finally(SignBody(env, IF fault.at = "store_event_source" THEN <<"warning">> ELSE <<>>))

NativeInit ==
    /\ IdleSession
    /\ \E env \in SignEnvs :
         vr = [called |-> FALSE, env |-> env,
               out |-> NativeOutcome(FALSE, <<>>, <<>>, None, None, "none")]

CallSignFile ==
    /\ ~vr.called
    /\ vr' = [vr EXCEPT !.called = TRUE, !.out = SignFile(vr.env)]
    /\ UNCHANGED <<flow, pc, server, thread, log_handler, log_to_page, result, error, event,
                   setCount, log_entries, inSet, last, elapsed, outcome, delivered, client>>

SpecNative == NativeInit /\ [][CallSignFile]_vars

(***************************************************************************)
(* Properties of the session and of wait().                                *)
(***************************************************************************)
\* a failure has been reported on the session / a signature has been delivered to it
FailureReported == error # None
SignatureDelivered == result # None

\* the session has reached Completed, Failed or TimedOut
Terminal == event \/ outcome = "timeout"

\* C6: wait() ends in one of three outcomes: it returns the delivered signature, it
\* raises the reported failure's message, or it raises the timeout error; it never
\* returns a signature for a session on which a failure was reported, and never
\* raises a failure message when only a signature was delivered.
C6_WaitOutcomes ==
    [][(outcome = "none" /\ outcome' # "none" /\ pc \in {"waiting", "check_error", "check_result"})
        => /\ outcome' \in {"returned", "error", "timeout"}
           /\ outcome' = "returned" => (SignatureDelivered /\ delivered' = result /\ ~FailureReported)
           /\ outcome' = "error" => (FailureReported /\ delivered' = error)
           /\ outcome' = "timeout" => (~event /\ delivered' = Some(TimeoutMessage))]_vars

\* C7: once the session is Completed, Failed or TimedOut, no later request changes the
\* stored result or the stored error, and the completion signal is not fired again.
C7_OneTerminalState ==
    [][Terminal => (result' = result /\ error' = error /\ setCount' = setCount)]_vars

\* C8: at most one of the result signature and the error message is set.
C8_AtMostOneSlot == ~(SignatureDelivered /\ FailureReported)

\* C10: a signing attempt whose session receives no result ends as timed out when the
\* wait timeout has elapsed: the timeout is raised at WaitTimeout, not earlier, and the
\* caller is not still blocked after it.
NothingReceived == result = None /\ error = None /\ \A k \in Setters : inSet[k] = 0

C10_TimesOutAtT ==
    /\ outcome = "timeout" => elapsed = WaitTimeout
    /\ (pc \in {"waiting", "dialog"} /\ NothingReceived) => elapsed <= WaitTimeout

\* C11: the error the caller receives for a failure reported by the plugin differs from
\* the error it receives for a timeout and from the one for a cancellation by the user,
\* whatever message the plugin reports.
C11_EndingsDistinguishable ==
    outcome = "error" => delivered \notin {Some(TimeoutMessage), Some(CancelMessage)}

(***************************************************************************)
(* Properties of stop().                                                   *)
(***************************************************************************)
\* the step is a call of stop()
StopCalled == pc' \in {"stop_a", "stop_b"} /\ pc' # pc

\* nothing of the session is running: never started, or stopped
Idle == ~server /\ ~thread /\ ~log_handler

\* C15: a call of stop() leaves the listener shut down, the worker thread joined and the
\* relay detached; a call of stop() on a session that was never started or is already
\* stopped changes nothing of the session.
C15_StopIdempotent ==
    [][StopCalled =>
         /\ ~server' /\ ~thread' /\ ~log_handler'
         /\ Idle => UNCHANGED <<server, thread, log_handler, log_to_page, result, error,
                                event, setCount, log_entries, inSet, last>>]_vars

\* stop() has been called twice in a row on a session that was started with its relay
C15_Witness == pc = "stop_b" /\ Idle /\ log_entries # <<>> /\ log_to_page

\* C16: in _sign_pdf_via_browser every ending of the wait leads out of the with block,
\* where the session is stopped (listener down, relay detached); a cancellation gives the
\* caller the cancellation error, never a signature, and leaves result, error and
\* completion flag as they were.
C16_OwnerStopsSession ==
    /\ []((flow = "gui" /\ outcome # "none") => pc \in {"exiting", "done"})
    /\ []((flow = "gui" /\ pc = "done") => (Idle /\ outcome # "none"))
    /\ []((flow = "gui" /\ outcome = "cancelled") => delivered = Some(CancelMessage))
    /\ [][(flow = "gui" /\ outcome # "cancelled" /\ outcome' = "cancelled")
            => (pc' = "exiting" /\ UNCHANGED <<result, error, event, setCount>>)]_vars

\* the user cancelled the dialog and the flow has left the with block
C16_Witness == flow = "gui" /\ pc = "done" /\ outcome = "cancelled" /\ Idle

(***************************************************************************)
(* Properties of the log buffer and of the log endpoint.                   *)
(***************************************************************************)
\* the client has polled, each time with the "last" of the response before
FollowsCursor == client.polling /\ client.advancing /\ client.polls # <<>>

\* C12: a client polling with the "last" of its previous response has received every
\* entry appended up to its last poll exactly once and in append order, and that poll's
\* "last" is the number of the newest entry, also after the buffer has evicted entries.
C12_EachEntryOnce ==
    FollowsCursor => (client.ids = NewestIds(client.snap, client.snap)
                      /\ client.cursor = client.snap)

\* the last two polls carried the same cursor, the highest "last" returned before them,
\* and no other thread logged between them
RepeatedPoll ==
    /\ client.polling /\ Len(client.polls) = 2
    /\ client.polls[1].after = client.polls[2].after
    /\ client.polls[1].after = client.polls[1].top
    /\ client.quiet

\* C13: two successive requests to the log endpoint with the same cursor, the highest
\* id already returned, and nothing else happening between them, both return no items
\* and the same "last".
C13_RepeatedPollEmpty ==
    RepeatedPoll => /\ client.polls[1].n = 0
                    /\ client.polls[2].n = 0
                    /\ client.polls[1].last = client.polls[2].last

\* C14: the buffer never holds more than LogCapacity entries; appending to it keeps the
\* newest LogCapacity entries, so what is evicted is exactly the overflow at the old end,
\* and the entries kept stay in the order they were appended.
C14_BoundedOldestEvicted ==
    /\ [](Len(log_entries) <= LogCapacity)
    /\ [][LET grown == Len(log_entries) + (client'.appended - client.appended)
              kept == Len(log_entries')
              evicted == grown - kept
          IN /\ kept = (IF grown > LogCapacity THEN LogCapacity ELSE grown)
             /\ \A i \in 1..kept :
                    i + evicted <= Len(log_entries) => log_entries'[i] = log_entries[i + evicted]
         ]_vars

\* entries have been appended to a full buffer
C14_Witness ==
    client.polling /\ client.appended > LogCapacity /\ Len(log_entries) = LogCapacity

(***************************************************************************)
(* Properties of the request handler.                                      *)
(***************************************************************************)
Exchanged == last # NoExchange
FromLoopback == Exchanged /\ last.req.addr \in LoopbackAddrs

\* the request went to one of the three gated endpoints
GatedEndpoint ==
    \/ last.req.method = "GET" /\ last.req.path \in {<<"config">>, <<"logs">>}
    \/ last.req.method = "POST" /\ last.req.path = <<"result">>

\* the request carries no nonce equal to the session's
WrongNonce == last.req.nonce # SessionNonce

\* the response holds nothing of the session: not its nonce, not the document, no log entry
NothingLeaked == last.resp.nonce = NoNonce /\ ~last.resp.pdf /\ last.resp.items = <<>>

\* the body of a POST could not be read as a JSON object
UnreadableBody == last.req.method = "POST" /\ last.req.body \in {"badlen", "notjson", "nonobject"}

C2_NonceOnEveryRequest ==
    (FromLoopback /\ WrongNonce) => last.resp.status = 403

\* C3: a request from an address that is not loopback is answered with 403 whatever its
\* method, path, nonce and body, a warning is logged for it, and it changes nothing of
\* the session.
C3_NonLoopbackRejected ==
    (Exchanged /\ last.req.addr \notin LoopbackAddrs)
        => /\ last.resp = Response(403, "Localhost only", <<"W", "D">>)
           /\ ~last.changed

C3_Witness ==
    /\ Exchanged /\ last.req.addr = "10.0.0.7"
    /\ last.req.method = "POST" /\ last.req.path = <<"result">>
    /\ last.req.nonce = SessionNonce /\ last.req.status = "ok"
    /\ last.req.signature = GoodSignature
    /\ last.resp.status = 403 /\ result = None

\* a string that is base64: alphabet characters in quads, padded at the end only
WellFormedBase64(cs) ==
    /\ Len(cs) > 0
    /\ Len(cs) % 4 = 0
    /\ \A i \in 1..Len(cs) : cs[i] \in {"Q", "="}
    /\ \A i \in 1..Len(cs) : cs[i] = "=" => (i > Len(cs) - 2 /\ \A j \in i..Len(cs) : cs[j] = "=")

Decodable(sig) == sig.kind = "string" /\ WellFormedBase64(sig.chars)

\* C9: a POST to the result endpoint with the correct nonce and status "ok" whose
\* signature is missing, empty or undecodable, and a POST whose body is no JSON, is
\* answered with 400 and leaves result, error and completion flag as they were.
C9_BadSignatureRejected ==
    (/\ FromLoopback /\ last.req.method = "POST" /\ last.req.path = <<"result">>
     /\ \/ last.req.body = "notjson"
        \/ /\ last.req.body = "object" /\ last.req.nonce = SessionNonce
           /\ last.req.status = "ok" /\ ~Decodable(last.req.signature))
        => (last.resp.status = 400 /\ ~last.changed)

(***************************************************************************)
(* Properties of the verification.                                         *)
(***************************************************************************)
ErrorStatuses == {"error", "error_format"}

\* the container parsed and has a signer: a status decision is due
Parsed == vr.called /\ vr.in.container = "signed_data"

\* the hash the signer's algorithm names, when this installation can compute it
HashOf(alg, gostcrypto) ==
    IF alg = "sha256" THEN Some("sha256")
    ELSE IF ~gostcrypto THEN None
    ELSE IF alg \in {"1.2.643.7.1.1.2.2", "1.2.643.7.1.1.2.9"} THEN Some("streebog256")
    ELSE IF alg = "id-tc26-gost3411-12-512" THEN Some("streebog512")
    ELSE None

AlgorithmSupported == HashOf(vr.in.alg, vr.in.gostcrypto) # None

\* the digest of the document under the signer's algorithm, recomputed
Recomputed == <<HashOf(vr.in.alg, vr.in.gostcrypto)[1], vr.in.pdf>>

DigestDiffers ==
    /\ Parsed /\ vr.in.digest # None /\ vr.in.pdf \in Documents /\ AlgorithmSupported
    /\ Recomputed # vr.in.digest[1]

\* C4: the status is valid only if the recomputed digest of the document equals the
\* signed messageDigest; whenever the two differ the status is mismatch, neither valid
\* nor expired.
C4_TamperIsMismatch ==
    /\ (vr.called /\ vr.info.status = "valid")
         => (Parsed /\ vr.in.digest # None /\ AlgorithmSupported /\ vr.in.pdf \in Documents
             /\ Recomputed = vr.in.digest[1])
    /\ DigestDiffers => vr.info.status = "mismatch"

\* the validity window of the certificate selected: the external one when it loads,
\* else the first embedded one
SelectedCert ==
    IF vr.in.cer = "good" THEN Some(ExternalCert)
    ELSE IF vr.in.embedded # None /\ vr.in.embedded[1].kind = "x509" THEN vr.in.embedded
    ELSE None

OutsideValidity ==
    /\ SelectedCert # None /\ SelectedCert[1].validityOk
    /\ (vr.in.now < SelectedCert[1].notBefore \/ vr.in.now > SelectedCert[1].notAfter)

\* C5: the status follows the fixed precedence: no messageDigest attribute (or no
\* algorithm), else unsupported algorithm, else digest mismatch, else certificate
\* outside its validity, else valid.
C5_StatusPrecedence ==
    (Parsed /\ vr.in.pdf \in Documents) =>
        vr.info.status =
            IF vr.in.digest = None \/ vr.in.alg = "" THEN "cannot_verify_no_digest"
            ELSE IF ~AlgorithmSupported
                 THEN IF vr.in.alg = "1.2.3.4" THEN "cannot_verify_unknown_alg"
                      ELSE "cannot_verify_gost"
            ELSE IF Recomputed # vr.in.digest[1] THEN "mismatch"
            ELSE IF OutsideValidity THEN "expired"
            ELSE "valid"

\* the certificate fields of the result
CertFields(info) == <<info.serial_number, info.subject, info.issuer, info.valid_from, info.valid_to>>

\* C17: the certificate is the external one when supplied, else the first embedded one,
\* else none, and then every certificate field keeps the unresolved marker; whether or
\* not a certificate is available and readable, the status is the digest status and not
\* an error.
C17_SelectionSoftFail ==
    (Parsed /\ vr.in.pdf \in Documents) =>
        /\ vr.info.status \notin ErrorStatuses
        /\ SelectedCert # None => vr.info.serial_number \in {SelectedCert[1].serial, Unresolved}
        /\ SelectedCert = None =>
               CertFields(vr.info) = <<Unresolved, Unresolved, Unresolved, Unresolved, Unresolved>>

\* the container cannot be parsed, is no signed-data or has no signer
ParsingFailed == vr.called /\ vr.in.container # "signed_data"

\* the document cannot be read when its digest is computed
DigestFailed ==
    /\ Parsed /\ vr.in.pdf = "unreadable"
    /\ vr.in.digest # None /\ vr.in.digest[1] # <<>> /\ AlgorithmSupported

\* the external certificate file is no certificate, or the certificate found cannot be read
CertificateFailed ==
    /\ Parsed
    /\ \/ vr.in.cer = "corrupt"
       \/ SelectedCert # None /\ ~SelectedCert[1].serialOk

SetterCalls ==
    {[set |-> out.set, value |-> out.value] :
        out \in {o \in {Handle(req, <<>>, FALSE, FALSE) : req \in SessionRequests} : o.set # "none"}}

\* a state of the result slot, the error slot and the completion signal
Slots(r, e, ev) == [result |-> r, error |-> e, event |-> ev]

\* the first step of a setter: its slot is written
SlotWritten(s, call) ==
    IF call.set = "set_error" THEN [s EXCEPT !.error = Some(call.value)]
    ELSE [s EXCEPT !.result = Some(call.value)]

RECURSIVE SerialRuns(_)
\* the states between the setter calls of runs in which the calls are made one after
\* another, each begun when the one before it has set the signal
SerialRuns(S) ==
    LET more == S \cup {[SlotWritten(s, call) EXCEPT !.event = TRUE] : s \in S, call \in SetterCalls}
    IN IF more = S THEN S ELSE SerialRuns(more)

\* the states of such runs, those in the middle of a setter call included
SerialStates ==
    LET between == SerialRuns({Slots(None, None, FALSE)})
    IN between \cup {SlotWritten(s, call) : s \in between, call \in SetterCalls}

\* C26: the mutations of the result slot and of the completion signal by concurrent
\* handler threads are serialized: every state of the slots and the signal that is
\* reached is also reached when the result requests are handled one after another.
C26_SettersSerialized == Slots(result, error, event) \in SerialStates

\* C27: whenever the completion signal is set, the result or the error is set, under
\* any interleaving of the result requests; a wait() that finds the signal set does
\* not end with the "empty answer" error.
C27_SignalImpliesSlot ==
    /\ event => (SignatureDelivered \/ Truthy(error))
    /\ outcome # "empty"

\* wait() has ended on the signal of one handler thread while another one is still
\* inside its setter
C27_Witness ==
    /\ event
    /\ outcome \in {"returned", "error"}
    /\ inSet["set_error"] + inSet["set_result"] > 0

\* the explicit start() of _sign_pdf_via_browser, made after __enter__ has started the session
SecondStart == pc = "entered" /\ pc' = "dialog"

\* C28: start() on a session whose listener is running does nothing: no second
\* listener, worker thread or log relay, and nothing is appended to the log buffer, so
\* after the two start() calls of the GUI there is one listener and one relay.
C28_SecondStartIsNoOp ==
    [][SecondStart => (server /\ UNCHANGED <<server, thread, log_handler, log_entries>>)]_vars

\* the GUI has made both start() calls: one listener, one relay, one start entry
C28_Witness ==
    /\ flow = "gui"
    /\ pc = "dialog"
    /\ server /\ thread /\ log_handler
    /\ log_entries = StartedLog(TRUE)

\* the statuses that say the hash algorithm is unknown or not supported
AlgorithmStatuses == {"cannot_verify_unknown_alg", "cannot_verify_gost"}

\* C29: the status names an unknown or unsupported hash algorithm only when the
\* signer's digest algorithm cannot be resolved; with a supported algorithm and a
\* messageDigest attribute that is present, an empty one included, the status is
\* mismatch, expired or valid.
C29_AlgorithmStatusOnlyIfUnresolved ==
    Parsed =>
        /\ vr.info.status \in AlgorithmStatuses => ~AlgorithmSupported
        /\ (AlgorithmSupported /\ vr.in.digest # None /\ vr.info.status \notin ErrorStatuses)
               => vr.info.status \in {"mismatch", "expired", "valid"}

(***************************************************************************)
(* Properties of the container loader.                                     *)
(***************************************************************************)
\* C19: the loader takes the file as binary when its first non-whitespace byte is 0x30,
\* else as PEM when it has begin/end markers, else as bare base64; the first decoding
\* that succeeds is parsed, and when the decoding fails, a PEM body included, the
\* original bytes are parsed as binary.
C19_DetectionOrder ==
    vr.called =>
        /\ vr.file.form = "der" => vr.loaded = Parse("raw", vr.file.body = "cms")
        /\ vr.file.form = "pem" =>
               vr.loaded = (IF vr.file.body = "undecodable" THEN Parse("raw", FALSE)
                            ELSE Parse("pem_body", vr.file.body = "cms"))
        /\ vr.file.form = "base64" =>
               vr.loaded = (IF vr.file.body = "undecodable" THEN Parse("raw", FALSE)
                            ELSE Parse("base64", vr.file.body = "cms"))
        /\ vr.file.form = "junk" => ~vr.loaded.ok

(***************************************************************************)
(* Properties of the certificate selector.                                 *)
(***************************************************************************)
\* how many of thumbprint, subject and container the call supplies
ExplicitSelectors ==
    Cardinality({f \in {"thumbprint", "subject", "container"} : vr.call[f] \notin {None, Some("")}})

\* C20: a selection is accepted exactly when one of thumbprint, subject, container and
\* interactive choice is supplied: none, the interactive choice together with an
\* explicit selector, and more than one explicit selector are all refused.
C20_ExactlyOneSelector ==
    vr.called =>
        (~vr.out.raised <=> (IF vr.call.choose_certificate THEN ExplicitSelectors = 0
                             ELSE ExplicitSelectors = 1))

(***************************************************************************)
(* Properties of the command line of the cryptcp wrapper.                  *)
(***************************************************************************)
SelectorFlags == {"-thumbprint", "-subject", "-cont", "-choose"}

\* the selector groups a command line may hold for the selectors of a call
SelectorGroups(sel) ==
    {<<"-thumbprint", sel.thumbprint[i]>> : i \in DOMAIN sel.thumbprint}
    \cup {<<"-subject", sel.subject[i]>> : i \in DOMAIN sel.subject}
    \cup {<<"-cont", sel.container[i]>> : i \in DOMAIN sel.container}
    \cup {<<"-choose">>}

\* a command line has been built
CommandBuilt == vr.called /\ vr.out.cmd # <<>>

\* C21: every command line built for signing is the tool, the mode flags, exactly one
\* selector group, -in input, -out output; it never holds two selector flags, whatever
\* selectors were passed.
C21_OneSelectorOnCommandLine ==
    CommandBuilt =>
        /\ \E group \in SelectorGroups(vr.call.selectors) :
              \E tool \in {"tool", "cryptcp"}, out \in {"out.sig", "in.pdf.sig", "in.pdf.p7m"} :
                 vr.out.cmd = <<tool>> \o CryptcpFlags(vr.call.mode) \o group
                                \o <<"-in", "in.pdf">> \o <<"-out", out>>
        /\ Cardinality({i \in DOMAIN vr.out.cmd : vr.out.cmd[i] \in SelectorFlags}) = 1

\* a command line is built from a call that passes several selectors
C21_Witness ==
    /\ CommandBuilt
    /\ Given(vr.call.selectors.thumbprint)
    /\ Given(vr.call.selectors.subject)
    /\ Given(vr.call.selectors.container)
    /\ vr.out.cmd[3] = "-detached"

\* the words of a text
Words(text) == {text[i] : i \in DOMAIN text}

\* the texts the wrapper has logged or raised: log lines, the message of the error
\* raised and the message of the error it was raised from
TextsOut ==
    {vr.out.logged[i] : i \in DOMAIN vr.out.logged}
    \cup (IF vr.out.raised = None THEN {} ELSE {vr.out.raised[1].message, vr.out.raised[1].cause})

\* the certificate is selected by thumbprint
ByThumbprint == CommandBuilt /\ vr.out.cmd[Len(CryptcpFlags(vr.call.mode)) + 2] = "-thumbprint"

\* C22: no text logged or raised for an invocation that selects the certificate by
\* thumbprint holds the thumbprint value, in dry-run mode and after a non-zero exit
\* status too; the logged command line differs from the command line only in the
\* argument that follows -thumbprint.
C22_ThumbprintNeverInText ==
    ByThumbprint =>
        /\ \A text \in TextsOut : vr.call.selectors.thumbprint[1] \notin Words(text)
        /\ Len(vr.out.logged) = 1
        /\ LET line == Tail(vr.out.logged[1]) IN
           /\ Len(line) = Len(vr.out.cmd)
           /\ \A i \in DOMAIN line :
                 line[i] = (IF i > 1 /\ vr.out.cmd[i - 1] = "-thumbprint" THEN "<thumbprint>"
                            ELSE vr.out.cmd[i])

(***************************************************************************)
(* Properties of the certificate selection of the CAdESCOM signer.         *)
(***************************************************************************)
\* the listing of list_certificates, without the certificates that are not in the
\* store that was opened
OpenedStoreListing ==
    SelectSeq(ListCertificates(vr.certs), LAMBDA i : vr.certs[i].in_user)

\* the entries of the opened store that are valid and have private-key access
UsableListing ==
    SelectSeq(OpenedStoreListing,
              LAMBDA i : vr.certs[i].has_private_key /\ vr.certs[i].is_valid)

\* C23: with an explicit thumbprint only that certificate is used, and it is an error
\* when it is not found or has no private-key access; without a thumbprint the first
\* store certificate that is valid and has private-key access is chosen, if there is
\* none the first store certificate, and selection fails when the store has none.
C23_SelectionOrder ==
    vr.called =>
        IF ThumbprintGiven(vr.thumbprint)
        THEN LET h == Normalized(vr.thumbprint) IN
             IF h \in 1..Len(vr.certs) /\ vr.certs[h].in_user /\ vr.certs[h].has_private_key
             THEN vr.out = Selected(h)
             ELSE vr.out.raised
        ELSE vr.listing_ok =>
             IF UsableListing # <<>> THEN vr.out = Selected(UsableListing[1])
             ELSE IF OpenedStoreListing # <<>> THEN vr.out = Selected(OpenedStoreListing[1])
             ELSE vr.out.raised

(***************************************************************************)
(* Properties of sign_file of the CAdESCOM signer.                         *)
(***************************************************************************)
\* how often a call occurs among the calls made to the provider
Count(call) == Cardinality({i \in DOMAIN vr.out.calls : vr.out.calls[i] = call})

\* the call met a fault of the recoverable kind: a class that is not registered, a
\* missing key container or a stale key set
RecoverableFault ==
    /\ vr.called
    /\ \/ vr.out.hit \in DispatchPoints /\ "Class not registered" \in vr.env.fault.markers
       \/ /\ vr.out.hit = "sign"
          /\ vr.env.fault.markers \cap {"Class not registered", "0x80090016", "NTE_BAD_KEYSET"} # {}

\* C24: after a recoverable provider fault signing is attempted through the external
\* tool before an error reaches the caller, and the original diagnostic is logged.
C24_FallbackBeforeFailure ==
    RecoverableFault =>
        /\ Count("cryptcp") > 0
        /\ vr.out.logged # <<>>

\* the SignCades call raised
SigningCallFailed == vr.called /\ vr.out.hit = "sign"

\* C25: a fault raised by the signing call reaches the caller as SignerCadescomError
\* with the hint for a missing key carrier, else for no private-key access, else for an
\* unregistered component, else the general one; no other exception leaves sign_file
\* from the signing call.
C25_FaultsDecodedToHints ==
    SigningCallFailed =>
        /\ vr.out.raised # None
        /\ vr.out.raised[1].class = "SignerCadescomError"
        /\ LET m == vr.env.fault.markers IN
           vr.out.raised[1].message =
               << IF "0x80090016" \in m \/ "NTE_BAD_KEYSET" \in m THEN Hint.key_carrier
                  ELSE IF "0x8009000D" \in m THEN Hint.no_key
                  ELSE IF "Class not registered" \in m THEN Hint.not_registered
                  ELSE Hint.sign_failed >>

\* the signing call fails with a message that holds the markers of two hints
C25_Witness ==
    /\ SigningCallFailed
    /\ vr.env.fault.markers = {"0x8009000D", "Class not registered"}
    /\ vr.out.raised[1].message = <<Hint.no_key>>

\* C30: once the store has been opened it is closed exactly once on every way out of
\* sign_file, and no close is attempted when the store was not opened.
C30_StoreClosedOnce ==
    vr.called => Count("Store.Close") = (IF vr.out.opened THEN 1 ELSE 0)

\* the output could not be written after the signature was made: the store is closed
C30_Witness ==
    /\ vr.called
    /\ vr.out.hit = "write_output"
    /\ vr.out.raised # None
    /\ vr.out.opened
    /\ Count("Store.Close") = 1

====
